---- MODULE Spec2Model ----
(***************************************************************************)
(* Market data acquisition of TradeEdge: MarketDataManager.fetch_ticker    *)
(* over AlphaVantageClient (primary, budget limited) and YFinanceClient    *)
(* (secondary), their on-disk caches and the daily API budget counter.     *)
(*                                                                         *)
(* Time is counted in minutes.  A call of MarketDataManager.fetch_ticker   *)
(* is a sequence of steps (cache/budget checks, one step per network       *)
(* request) of a single blocking thread; the clock advances between calls. *)
(***************************************************************************)
EXTENDS Integers, Sequences, FiniteSets, TLC

\* ------------------------------------------------------------------ bounds
MaxDay == 1
MaxCalls == 3
MaxRequests == 3
MaxThreads == 2

\* ------------------------------------------------------- program constants
BudgetLimit == 25
AVMaxRetries == 2
YFMaxRetries == 2
DefaultTTL == 24
MarketTTL == 1
MarketOpenHour == 9
MarketCloseHour == 16
MinutesPerHour == 60
HoursPerDay == 24

MinutesPerDay == MinutesPerHour * HoursPerDay

Min(a, b) == IF a < b THEN a ELSE b
Max(a, b) == IF a < b THEN b ELSE a

\* ------------------------------------------------------------------ clock
\* The instants of a day (minutes after midnight) at which calls are made:
\* 08:00 (before the market hours) and 09:00 (in the market hours).
Instants == <<480, 540>>

Days == 0..MaxDay

DayOf(t) == t \div MinutesPerDay
HourOf(t) == (t % MinutesPerDay) \div MinutesPerHour

\* ---------------------------------------------------------------- tickers
\* A ticker is its sequence of characters.
SPY == <<"S", "P", "Y">>
VIX == <<"^", "V", "I", "X">>
Tickers == {SPY, VIX}
\* further symbols a caller may ask for: one whose name begins with the name
\* of another, and one that differs from another by the leading '^'
SPYG == <<"S", "P", "Y", "G">>
VIXPlain == <<"V", "I", "X">>
Symbols == Tickers \cup {SPYG, VIXPlain}

\* ticker.replace('^', '').replace('/', '_')
RECURSIVE safe_ticker(_)
safe_ticker(t) ==
    IF t = <<>> THEN <<>>
    ELSE IF Head(t) = "^" THEN safe_ticker(Tail(t))
    ELSE IF Head(t) = "/" THEN <<"_">> \o safe_ticker(Tail(t))
    ELSE <<Head(t)>> \o safe_ticker(Tail(t))

SafeNames == {safe_ticker(t) : t \in Symbols}

IsPrefix(p, s) == Len(p) <= Len(s) /\ SubSeq(s, 1, Len(p)) = p

\* ----------------------------------------------------------------- series
\* A series is abstracted to its provider, the day of its last bar and
\* whether it holds a not-a-number value ("nan"); "null" is the JSON null
\* written for it.  Lags: how many days the last bar of a live payload lies
\* behind the day of the fetch (0: today's bar, 2: e.g. after a weekend).
\* rows: 0 for a frame without bars, 1 for a frame with bars.  sym: the
\* symbol the series is data of, which is the 'ticker' of a cache file.
Lags == {0, 2}
NoSeries == [src |-> "none", last |-> 0, hole |-> "none", rows |-> 0, sym |-> <<>>]

AVPayloads(day, t) ==
    {[src |-> "av", last |-> day - lag, hole |-> "none", rows |-> 1, sym |-> t] : lag \in Lags}
\* a frame of Yahoo Finance has a missing value (NaN) somewhere: the case
\* that _sanitize_value is there for
YFPayloads(day, t) ==
    {[src |-> "yf", last |-> day, hole |-> h, rows |-> 1, sym |-> t] : h \in {"nan"}}

\* a _sanitize_value that writes a number for NaN and Inf
sanitize_value_fill(h) == IF h \in {"nan", "inf"} THEN "none" ELSE h

\* _sanitize_value: NaN and Inf become None (JSON null)
sanitize_value(h) == IF h \in {"nan", "inf"} THEN "null" ELSE h
Sanitize(p) == [p EXCEPT !.hole = sanitize_value(p.hole)]
\* pd.DataFrame(...) of the rows read back: null is a missing value (NaN)
LoadFrame(p) == [p EXCEPT !.hole = IF p.hole = "null" THEN "nan" ELSE p.hole]

\* ------------------------------------------------------------ cache files
\* st: "none" (no such file), "ok" (readable), "corrupt" (json.load fails)
NoFile == [st |-> "none", data |-> NoSeries, mtime |-> 0]
OkFile(p, t) == [st |-> "ok", data |-> p, mtime |-> t]
\* a file cut short or otherwise not the JSON that was written
CorruptFile(t) == [st |-> "corrupt", data |-> NoSeries, mtime |-> t]

\* a read that takes whatever the file holds for the series
json_load_ok_any(f) == f.st # "none"

\* json.load and the reconstruction of the frame go through
json_load_ok(f) == f.st = "ok"

\* a write that leaves an existing file as it is
cache_write_keep(old, p, t) == IF old.st = "ok" THEN old ELSE OkFile(Sanitize(p), t)

\* a write that never reaches the disk
cache_write_skip(old, p, t) == old

\* open(cache_path, 'w') and json.dump(cache_data, f): the file is truncated
\* and holds the sanitized rows of the new frame
cache_write(old, p, t) == OkFile(Sanitize(p), t)

\* daily budget counter file api_budget_<day>.json
NoBudget == [st |-> "none", calls_used |-> 0]
OkBudget(n) == [st |-> "ok", calls_used |-> n]
CorruptBudget == [st |-> "corrupt", calls_used |-> 0]

\* The counter files a newly constructed client may find for the first day.
InitBudgets == {NoBudget, OkBudget(BudgetLimit - 1), OkBudget(BudgetLimit)}

\* keyword arguments a caller passes through MarketDataManager.fetch_ticker
\* to YFinanceClient.fetch_ticker
DefaultKw == [allow_stale |-> TRUE, use_cache |-> TRUE, ttl_hours |-> DefaultTTL]
KwArgs == {DefaultKw, [DefaultKw EXCEPT !.allow_stale = FALSE]}

VARIABLES
    clock,      \* datetime.now() / time.time(), minutes
    avFiles,    \* data/cache/alphavantage/<safe>_<day>.json
    yfFiles,    \* data/cache/yfinance/<safe>_<day>.json
    budget,     \* data/cache/alphavantage/api_budget_<day>.json
    pc,         \* position of the calling thread
    cur,        \* the MarketDataManager.fetch_ticker call in progress / last completed
    attempt,    \* loop variable of the retry loop
    ret,        \* what the last completed call returned or raised
    resp,       \* the answer to the last network request of the client call
                \* (a local of the client: gone when the client gives up)
    avUncounted, \* requests dispatched to Alpha Vantage today that the counter
                \* file does not count (counted up to max_retries)
    calls,      \* number of fetch_ticker calls started
    status,     \* last result of get_daily_budget_status
    lim,        \* the rate limiter of one client instance, times in seconds
    thr,        \* threads inside AlphaVantageClient.fetch_ticker side by side
    calc,       \* the risk score calculators: the last call and its result
    fred,       \* FredClient: self.fred, data/cache/fred/<series>_<day>.json,
                \* the last fetch_series and what it did
    yfSeen      \* the day of the last direct call of YFinanceClient.fetch_ticker
                \* per symbol, and whether the call at hand is the first of its day

\* the variables of the market data calls
mdvars == <<clock, avFiles, yfFiles, budget, pc, cur, attempt, ret, resp, avUncounted, calls, status>>
vars == <<clock, avFiles, yfFiles, budget, pc, cur, attempt, ret, resp, avUncounted, calls, status, lim, thr, calc, fred, yfSeen>>

today == DayOf(clock)

\* ------------------------------------------------- AlphaVantageClient parts
\* glob(f"{safe_ticker}_*.json") against the name <s>_<day>.json
AVGlobMatches(safe, s) == IsPrefix(safe \o <<"_">>, s \o <<"_">>)

AVCacheFiles(av, safe) ==
    {k \in SafeNames \X Days : av[k[1]][k[2]].st # "none" /\ AVGlobMatches(safe, k[1])}

\* sorted(..., reverse=True)[0]; names of one safe ticker sort by date
AVLatest(av, safe) ==
    CHOOSE k \in AVCacheFiles(av, safe) :
        \A k2 \in AVCacheFiles(av, safe) : k2[2] <= k[2]

has_yesterdays_data(av, safe, day) ==
    IF AVCacheFiles(av, safe) = {} THEN FALSE
    ELSE LET k == AVLatest(av, safe)
             f == av[k[1]][k[2]]
         IN IF ~json_load_ok(f) THEN FALSE
            ELSE IF f.data.rows = 0 THEN FALSE
            ELSE f.data.last >= day - 1

\* a budget check that still admits a call at the limit
check_api_budget_le(b) ==
    IF b.st = "ok" THEN b.calls_used <= BudgetLimit
    ELSE TRUE

check_api_budget(b) ==
    IF b.st = "ok" THEN b.calls_used < BudgetLimit
    ELSE TRUE

\* an increment that starts the counter file over
increment_api_budget_reset(b) == OkBudget(1)

increment_api_budget(b) ==
    IF b.st = "ok" THEN OkBudget(b.calls_used + 1)
    ELSE OkBudget(1)

\* ----------------------------------------------------- YFinanceClient parts
\* a validity check with the comparison turned round
is_cache_valid_swapped(f, ttl_hours, now) ==
    IF f.st = "none" THEN FALSE
    ELSE LET age == now - f.mtime
             is_market_hours == MarketOpenHour <= HourOf(now) /\ HourOf(now) <= MarketCloseHour
         IN IF is_market_hours
            THEN age > Min(ttl_hours, MarketTTL) * MinutesPerHour
            ELSE age > ttl_hours * MinutesPerHour

\* a validity check without the one-hour cap of the market hours
is_cache_valid_nocap(f, ttl_hours, now) ==
    IF f.st = "none" THEN FALSE
    ELSE (now - f.mtime) < ttl_hours * MinutesPerHour

is_cache_valid(f, ttl_hours, now) ==
    IF f.st = "none" THEN FALSE
    ELSE LET age == now - f.mtime
             is_market_hours == MarketOpenHour <= HourOf(now) /\ HourOf(now) <= MarketCloseHour
         IN IF is_market_hours
            THEN age < Min(ttl_hours, MarketTTL) * MinutesPerHour
            ELSE age < ttl_hours * MinutesPerHour

\* a lookup that takes the newest file of the symbol, whatever its date
yf_cache_entry_newest(yf, safe, day) ==
    LET files == {d \in Days : yf[safe][d].st # "none"}
    IN IF files = {} THEN yf[safe][day]
       ELSE yf[safe][CHOOSE d \in files : \A d2 \in files : yf[safe][d2].mtime <= yf[safe][d].mtime]

\* cache_date = datetime.now().strftime('%Y-%m-%d');
\* cache_path = self._get_cache_path(ticker, cache_date)
yf_cache_entry(yf, safe, day) == yf[safe][day]

\* pd.DataFrame(cache_data['data']) and df['Date']: a file without rows has
\* no Date column and the read fails like an unreadable file
yf_frame_ok(f) == json_load_ok(f) /\ f.data.rows > 0

\* glob(f"{safe_ticker}*.json")
YFGlobMatches(safe, s) == IsPrefix(safe, s \o <<"_">>)

YFCacheFiles(yf, safe) ==
    {k \in SafeNames \X Days : yf[k[1]][k[2]].st # "none" /\ YFGlobMatches(safe, k[1])}

\* max(stale_cache_files, key=lambda p: p.stat().st_mtime)
YFLatest(yf, safe) ==
    CHOOSE k \in YFCacheFiles(yf, safe) :
        \A k2 \in YFCacheFiles(yf, safe) : yf[k2[1]][k2[2]].mtime <= yf[k[1]][k[2]].mtime

\* -------------------------------------------------------------------- Init
NoFiles == [s \in SafeNames |-> [d \in Days |-> NoFile]]

\* step: "av1" (Alpha Vantage, use_cache=False), "yf" (Yahoo Finance),
\* "av3" (last resort, Alpha Vantage with use_cache=True), "vix" (^VIX, Yahoo
\* Finance only).  av1, yf, av3: how that step ended.  used0, av0, yf0: the
\* counter file and the caches when the call started.
\* via: the method of MarketDataManager the caller called.
NoCall == [ticker |-> SPY, kw |-> DefaultKw, step |-> "none", via |-> "fetch_ticker",
           used0 |-> NoBudget, av0 |-> NoFiles, yf0 |-> NoFiles,
           avReq |-> 0, yfReq |-> 0,
           av1 |-> "none", yf |-> "none", av3 |-> "none", yfErr |-> "none"]

\* out: what the caller of the MarketDataManager method gets ("frame", "raise",
\* "float" with its value, "None")
NoOut == [kind |-> "none", value |-> 0]
NoRet == [kind |-> "none", data |-> NoSeries, errFrom |-> "none", err |-> "none", out |-> NoOut]
NoResp == [kind |-> "none", data |-> NoSeries]
NoStatus == [used |-> 0, limit |-> 0, remaining |-> 0, date |-> 0]
\* at: where a thread is in AlphaVantageClient.fetch_ticker; data: the dict
\* _increment_api_budget is about to write
Threads == 1..MaxThreads
NoThread == [at |-> "none", attempt |-> 0, data |-> NoBudget, live |-> FALSE]
NoThreads == [i \in Threads |-> NoThread]
\* no calculator was constructed or called
NoCalc == [op |-> "none"]
\* FredClient after __init__ with an API key and an empty cache directory.
\* ret: the last fetch_series: how it ended ("cache", "live", "raise"), the
\* observations it returned (told apart by the day of the request), whether
\* it called the API, and whether it was the first call of its day.
NoFredFile == [st |-> "none", mtime |-> 0, data |-> 0]
NoFredRet == [kind |-> "none", data |-> 0, requested |-> FALSE, first |-> FALSE]
NoFred == [ready |-> TRUE, files |-> [d \in Days |-> NoFredFile], ret |-> NoFredRet,
           lastDay |-> -1]
NoSeen == [last |-> [t \in Tickers |-> -1], first |-> FALSE]
\* a client that was constructed (last_request_time = 0) and sent nothing
NoLim == [client |-> "av", now |-> 0, last_request_time |-> 0, slept |-> 0, at |-> "idle", sent |-> 0]

Init ==
    /\ clock = Instants[1]
    /\ avFiles = NoFiles
    /\ yfFiles = NoFiles
    /\ \E b \in InitBudgets : budget = [d \in Days |-> IF d = 0 THEN b ELSE NoBudget]
    /\ pc = "idle"
    /\ cur = NoCall
    /\ attempt = 0
    /\ ret = NoRet
    /\ resp = NoResp
    /\ avUncounted = 0
    /\ calls = 0
    /\ status = NoStatus
    /\ lim = NoLim
    /\ thr = NoThreads
    /\ calc = NoCalc
    /\ fred = NoFred
    /\ yfSeen = NoSeen

\* ------------------------------------------------------------------- clock
NextInstant(t) ==
    LET tod == t % MinutesPerDay
        i == CHOOSE j \in 1..Len(Instants) : Instants[j] = tod
    IN IF i < Len(Instants) THEN DayOf(t) * MinutesPerDay + Instants[i + 1]
       ELSE (DayOf(t) + 1) * MinutesPerDay + Instants[1]

\* Time passes between two calls.
Tick ==
    /\ pc = "idle"
    /\ DayOf(NextInstant(clock)) <= MaxDay
    /\ clock' = NextInstant(clock)
    /\ avUncounted' = IF DayOf(clock') = today THEN avUncounted ELSE 0
    /\ cur' = NoCall
    /\ ret' = NoRet
    /\ resp' = NoResp
    /\ status' = NoStatus
    /\ fred' = [fred EXCEPT !.ret = NoFredRet]
    /\ UNCHANGED <<avFiles, yfFiles, budget, pc, attempt, calls, lim, thr, calc, yfSeen>>

\* ---------------------------------------- MarketDataManager.get_latest_price
\* data['Close'].iloc[-1]: closes are told apart by the provider and the date
\* of the bar
last_close(p) == (IF p.src = "av" THEN 100 ELSE 200) + p.last

\* a get_latest_price without its try block
latest_price_no_try(r) ==
    IF r.kind = "raise" THEN [kind |-> "raise", value |-> 0]
    ELSE IF r.data.rows > 0 THEN [kind |-> "float", value |-> last_close(r.data)]
    ELSE [kind |-> "None", value |-> 0]

\* the body of get_latest_price once fetch_ticker has returned or raised r
latest_price(r) ==
    IF r.kind = "raise" THEN [kind |-> "None", value |-> 0]
    ELSE IF r.data.rows > 0 THEN [kind |-> "float", value |-> last_close(r.data)]
    ELSE [kind |-> "None", value |-> 0]

\* fetch_ticker hands its frame or its exception to its caller, which is
\* the program or get_latest_price
Outcome(c, r) ==
    [r EXCEPT !.out = IF c.via = "get_latest_price" THEN latest_price(r)
                      ELSE [kind |-> IF r.kind = "raise" THEN "raise" ELSE "frame", value |-> 0]]

\* ------------------------------------------- MarketDataManager.fetch_ticker
\* The call returns `data` to its caller.
Return(c, kind, data) ==
    /\ pc' = "idle"
    /\ attempt' = 0
    /\ cur' = c
    /\ ret' = Outcome(c, [kind |-> kind, data |-> data, errFrom |-> "none", err |-> "none", out |-> NoOut])

\* The call raises to its caller.
Raise(c, from, err) ==
    /\ pc' = "idle"
    /\ attempt' = 0
    /\ cur' = c
    /\ ret' = Outcome(c, [kind |-> "raise", data |-> NoSeries, errFrom |-> from, err |-> err, out |-> NoOut])

\* AlphaVantageClient.fetch_ticker raised inside MarketDataManager.fetch_ticker:
\* the first attempt falls through to Yahoo Finance, the last resort re-raises
\* yahoo_error.
AVRaised(c, err) ==
    IF c.step = "av1"
    THEN /\ pc' = "yf_check"
         /\ attempt' = 0
         /\ cur' = [c EXCEPT !.step = "yf", !.av1 = err]
         /\ UNCHANGED ret
    ELSE Raise([c EXCEPT !.av3 = err], "yf", c.yfErr)

\* YFinanceClient.fetch_ticker raised: ^VIX propagates it, otherwise the
\* last resort (Alpha Vantage with use_cache=True) follows.
YFRaised(c, err) ==
    IF c.step = "vix"
    THEN Raise([c EXCEPT !.yf = "error", !.yfErr = err], "yf", err)
    ELSE /\ pc' = "av_check"
         /\ attempt' = 0
         /\ cur' = [c EXCEPT !.step = "av3", !.yf = "error", !.yfErr = err]
         /\ UNCHANGED ret

\* fetch_ticker entered from the method `via`
Enter(t, kw, via) ==
    /\ pc = "idle"
    /\ calls < MaxCalls
    /\ calls' = calls + 1
    /\ cur' = [NoCall EXCEPT !.ticker = t, !.kw = kw, !.via = via,
                             !.step = IF t = VIX THEN "vix" ELSE "av1",
                             !.used0 = budget[today], !.av0 = avFiles, !.yf0 = yfFiles]
    /\ pc' = IF t = VIX THEN "yf_check" ELSE "av_check"
    /\ ret' = NoRet
    /\ resp' = NoResp
    /\ status' = NoStatus
    /\ UNCHANGED <<clock, avFiles, yfFiles, budget, avUncounted, attempt, lim, thr, calc, fred, yfSeen>>

fetch_ticker(t, kw) == Enter(t, kw, "fetch_ticker")

\* data = self.fetch_ticker(ticker, period='5d'): no keyword reaches the clients
get_latest_price(t) == Enter(t, DefaultKw, "get_latest_price")

\* ------------------------------------------ AlphaVantageClient.fetch_ticker
\* MarketDataManager calls with use_cache=False first and with
\* use_cache=True, allow_stale=True as the last resort; allow_stale keeps
\* its default True in the first call.
AVUseCache(c) == c.step = "av3"
AVAllowStale(c) == TRUE

AVEnded(c, how) == IF c.step = "av1" THEN [c EXCEPT !.av1 = how] ELSE [c EXCEPT !.av3 = how]

\* Cache check (use_cache) and budget check, up to the retry loop.
AVCheck ==
    /\ pc = "av_check"
    /\ LET safe == safe_ticker(cur.ticker)
           files == AVCacheFiles(avFiles, safe)
           k == AVLatest(avFiles, safe)
           f == avFiles[k[1]][k[2]]
       IN IF AVUseCache(cur) /\ has_yesterdays_data(avFiles, safe, today)
          THEN Return(AVEnded(cur, "cache"), "av_cache", LoadFrame(f.data))
          ELSE IF ~check_api_budget(budget[today])
          THEN IF AVAllowStale(cur) /\ files # {} /\ json_load_ok(f)
               THEN Return(AVEnded(cur, "stale"), "av_stale", LoadFrame(f.data))
               ELSE AVRaised(cur, "budget")
          ELSE /\ pc' = "av_req"
               /\ UNCHANGED <<cur, ret, attempt>>
    /\ UNCHANGED <<clock, avFiles, yfFiles, budget, resp, avUncounted, calls, status, lim, thr, calc, fred, yfSeen>>

\* What one request to Alpha Vantage can answer: the series, an
\* 'Error Message' (nothing for the symbol), or the request fails otherwise
\* (a rate limit 'Note', a timeout, an HTTP error: handled alike).
AVOutcomes(day, t) ==
    {[kind |-> "ok", data |-> p] : p \in AVPayloads(day, t)}
    \cup {[kind |-> k, data |-> NoSeries] : k \in {"nodata", "transient"}}

\* a retry loop that goes round once more
AVRetries_more(kind, att) == att < AVMaxRetries

\* except Exception: if attempt < self.max_retries - 1: continue
AVRetries(kind, att) == att < AVMaxRetries - 1

\* a client that counts every request it dispatched
counts_call_always(kind) == TRUE

\* _increment_api_budget is only reached after the series was cached
counts_call(kind) == kind = "ok"

\* One pass of the retry loop: _rate_limit, requests.get, and the handling
\* of the answer.
AVAttempt ==
    /\ pc = "av_req"
    /\ \E out \in AVOutcomes(today, cur.ticker) :
        LET safe == safe_ticker(cur.ticker)
            c == [cur EXCEPT !.avReq = @ + 1]
        IN /\ resp' = IF out.kind = "ok" \/ AVRetries(out.kind, attempt) THEN out ELSE NoResp
           /\ avUncounted' = IF counts_call(out.kind) THEN avUncounted
                              ELSE Min(avUncounted + 1, AVMaxRetries)
           /\ budget' = IF counts_call(out.kind)
                         THEN [budget EXCEPT ![today] = increment_api_budget(@)]
                         ELSE budget
           \* the modification time of these files is never read
           /\ IF out.kind = "ok"
              THEN /\ avFiles' = [avFiles EXCEPT ![safe][today] = cache_write(@, out.data, 0)]
                   /\ Return(AVEnded(c, "ok"), "av_live", out.data)
              ELSE IF AVRetries(out.kind, attempt)
              THEN /\ attempt' = attempt + 1
                   /\ cur' = c
                   /\ UNCHANGED <<pc, ret, avFiles>>
              ELSE /\ AVRaised(c, "error")
                   /\ UNCHANGED avFiles
    /\ UNCHANGED <<clock, yfFiles, calls, status, lim, thr, calc, fred, yfSeen>>

\* --------------------------------------------- YFinanceClient.fetch_ticker
YFCheck ==
    /\ pc = "yf_check"
    /\ LET safe == safe_ticker(cur.ticker)
           f == yf_cache_entry(yfFiles, safe, today)
       IN IF cur.kw.use_cache /\ is_cache_valid(f, cur.kw.ttl_hours, clock) /\ yf_frame_ok(f)
          THEN Return([cur EXCEPT !.yf = "cache"], "yf_cache", LoadFrame(f.data))
          ELSE /\ pc' = "yf_req"
               /\ UNCHANGED <<cur, ret, attempt>>
    /\ UNCHANGED <<clock, avFiles, yfFiles, budget, resp, avUncounted, calls, status, lim, thr, calc, fred, yfSeen>>

\* What stock.history can do: return the series, return an empty frame, or
\* raise (a 429, an error whose text has "No data", any other error).
YFOutcomes(day, t) ==
    {[kind |-> "ok", data |-> p] : p \in YFPayloads(day, t)}
    \cup {[kind |-> k, data |-> NoSeries] : k \in {"empty", "exc429", "excNoData", "excOther"}}

YFRetries(kind, att) ==
    /\ att < YFMaxRetries - 1
    /\ kind # "excNoData"

\* The exception YFinanceClient.fetch_ticker re-raises: its own ValueError
\* for an empty frame, otherwise the library's exception.
YFError(kind) == IF kind = "empty" THEN "ValueError" ELSE "LibraryError"

YFAttempt ==
    /\ pc = "yf_req"
    /\ \E out \in YFOutcomes(today, cur.ticker) :
        LET safe == safe_ticker(cur.ticker)
            c == [cur EXCEPT !.yfReq = @ + 1]
            files == YFCacheFiles(yfFiles, safe)
            k == YFLatest(yfFiles, safe)
            f == yfFiles[k[1]][k[2]]
        IN /\ resp' = IF out.kind = "ok" \/ YFRetries(out.kind, attempt) THEN out ELSE NoResp
           /\ IF out.kind = "ok"
              THEN /\ yfFiles' = [yfFiles EXCEPT ![safe][today] = cache_write(@, out.data, clock)]
                   /\ Return([c EXCEPT !.yf = "ok"], "yf_live", out.data)
              ELSE IF YFRetries(out.kind, attempt)
              THEN /\ attempt' = attempt + 1
                   /\ cur' = c
                   /\ UNCHANGED <<pc, ret, yfFiles>>
              ELSE IF cur.kw.allow_stale /\ files # {} /\ yf_frame_ok(f)
              THEN /\ Return([c EXCEPT !.yf = "error"], "yf_stale", LoadFrame(f.data))
                   /\ UNCHANGED yfFiles
              ELSE /\ YFRaised(c, YFError(out.kind))
                   /\ UNCHANGED yfFiles
    /\ UNCHANGED <<clock, avFiles, budget, avUncounted, calls, status, lim, thr, calc, fred, yfSeen>>

\* ------------------------------------------------ get_daily_budget_status
\* a status whose remaining is the plain difference
get_daily_budget_status_unclamped(b, day) ==
    LET calls_used == IF b.st = "ok" THEN b.calls_used ELSE 0
    IN [used |-> calls_used, limit |-> BudgetLimit,
        remaining |-> BudgetLimit - calls_used, date |-> day]

get_daily_budget_status(b, day) ==
    LET calls_used == IF b.st = "ok" THEN b.calls_used ELSE 0
    IN [used |-> calls_used, limit |-> BudgetLimit,
        remaining |-> Max(0, BudgetLimit - calls_used), date |-> day]

\* Requests dispatched to Alpha Vantage today: those the counter file counts
\* and those it does not.
AVDispatchedToday == get_daily_budget_status(budget[today], today).used + avUncounted

BudgetStatus ==
    /\ pc = "idle"
    /\ status' = get_daily_budget_status(budget[today], today)
    /\ cur' = NoCall
    /\ ret' = NoRet
    /\ resp' = NoResp
    /\ UNCHANGED <<clock, avFiles, yfFiles, budget, pc, attempt, avUncounted, calls, lim, thr, calc, fred, yfSeen>>

Next ==
    \/ Tick
    \/ \E t \in Tickers, kw \in KwArgs : fetch_ticker(t, kw)
    \/ AVCheck
    \/ AVAttempt
    \/ YFCheck
    \/ YFAttempt
    \/ BudgetStatus

Spec == Init /\ [][Next]_vars

TypeOK ==
    /\ pc \in {"idle", "av_check", "av_req", "yf_check", "yf_req"}
    /\ attempt \in 0..1
    /\ calls \in 0..MaxCalls

\* ---------------------------------------------- the cache validity check alone
\* YFinanceClient.fetch_ticker entered at any half hour of a day, with a cache
\* file for today written at any earlier half hour and any ttl_hours.
FreshTTLs == {0, 1, 2, DefaultTTL}
HalfHours == {k * (MinutesPerHour \div 2) : k \in 0..(2 * HoursPerDay - 1)}

InitFresh ==
    /\ clock \in HalfHours
    /\ \E m \in HalfHours, p \in YFPayloads(0, SPY) :
        /\ m <= clock
        /\ yfFiles = [NoFiles EXCEPT ![safe_ticker(SPY)][0] = OkFile(Sanitize(p), m)]
    /\ \E ttl \in FreshTTLs :
        cur = [NoCall EXCEPT !.step = "yf", !.yf0 = yfFiles,
                             !.kw = [DefaultKw EXCEPT !.ttl_hours = ttl]]
    /\ avFiles = NoFiles
    /\ budget = [d \in Days |-> NoBudget]
    /\ pc = "yf_check"
    /\ attempt = 0
    /\ ret = NoRet
    /\ resp = NoResp
    /\ avUncounted = 0
    /\ calls = 1
    /\ status = NoStatus
    /\ lim = NoLim
    /\ thr = NoThreads
    /\ calc = NoCalc
    /\ fred = NoFred
    /\ yfSeen = NoSeen

NextFresh == YFCheck

SpecFresh == InitFresh /\ [][NextFresh]_vars

\* ------------------------------------------------------- the rate limiter alone
\* One client instance and the requests a single thread sends through it:
\* _rate_limit, then the request, then whatever the thread does until the
\* next _rate_limit (nothing, a retry delay, a caller's pause).
AVMinInterval == 12
YFMinInterval == 1
AVRetryDelay == 5
YFRetryDelay == 3
Clients == {"av", "yf"}

min_request_interval(client) == IF client = "av" THEN AVMinInterval ELSE YFMinInterval
retry_delay(client) == IF client = "av" THEN AVRetryDelay ELSE YFRetryDelay

\* time.time() when the client is constructed: far from last_request_time = 0
StartTime == 100
\* seconds between the end of a request and the next _rate_limit
Pauses(client) ==
    {0, 1, retry_delay(client), min_request_interval(client) - 1, min_request_interval(client)}
\* time.sleep(d) suspends for d seconds or longer
Oversleep == {0, 1}
\* seconds a request takes
Durations == {0, 2}

\* a limiter that never sleeps
sleep_time_none(current_time, last, interval) == 0

\* the argument of time.sleep in _rate_limit (0: no sleep)
sleep_time(current_time, last, interval) ==
    LET time_since_last_request == current_time - last
    IN IF time_since_last_request < interval
       THEN interval - time_since_last_request
       ELSE 0

InitRate ==
    /\ \E c \in Clients : lim = [NoLim EXCEPT !.client = c, !.now = StartTime]
    /\ thr = NoThreads
    /\ calc = NoCalc
    /\ fred = NoFred
    /\ yfSeen = NoSeen
    /\ clock = Instants[1]
    /\ avFiles = NoFiles
    /\ yfFiles = NoFiles
    /\ budget = [d \in Days |-> NoBudget]
    /\ pc = "idle"
    /\ cur = NoCall
    /\ attempt = 0
    /\ ret = NoRet
    /\ resp = NoResp
    /\ avUncounted = 0
    /\ calls = 0
    /\ status = NoStatus

\* The thread does something else between two requests.
RatePause ==
    /\ lim.at = "idle"
    /\ lim.sent < MaxRequests
    /\ \E d \in Pauses(lim.client) : lim' = [lim EXCEPT !.now = @ + d, !.at = "paused"]
    /\ UNCHANGED <<mdvars, thr, calc, fred, yfSeen>>

\* _rate_limit
rate_limit ==
    /\ lim.at = "paused"
    /\ \E over \in Oversleep :
        LET d == sleep_time(lim.now, lim.last_request_time, min_request_interval(lim.client))
            woke == IF d > 0 THEN lim.now + d + over ELSE lim.now
        IN lim' = [lim EXCEPT !.now = woke, !.last_request_time = woke,
                              !.slept = d, !.at = "limited"]
    /\ UNCHANGED <<mdvars, thr, calc, fred, yfSeen>>

\* requests.get / stock.history
RateRequest ==
    /\ lim.at = "limited"
    /\ \E d \in Durations :
        lim' = [lim EXCEPT !.now = @ + d, !.sent = @ + 1, !.at = "idle"]
    /\ UNCHANGED <<mdvars, thr, calc, fred, yfSeen>>

NextRate == RatePause \/ rate_limit \/ RateRequest

SpecRate == InitRate /\ [][NextRate]_vars

\* ------------------------------------------- one call over caches left behind
\* The cache directories as earlier runs of the program may have left them:
\* for one symbol, per provider a file of yesterday and a file of today, each
\* absent, whole, or cut short (the files are written in place), and today's
\* counter file absent, readable or cut short.  One call is made.
DiskToday == MaxDay
DiskDays == {DiskToday - 1, DiskToday}
DiskTime(day) == day * MinutesPerDay + Instants[1]

AVDiskFiles(day, t) ==
    {NoFile, CorruptFile(0),
     OkFile([src |-> "av", last |-> day, hole |-> "none", rows |-> 1, sym |-> t], 0)}
YFDiskFiles(day, t) ==
    {NoFile, CorruptFile(DiskTime(day)),
     OkFile([src |-> "yf", last |-> day, hole |-> "none", rows |-> 1, sym |-> t], DiskTime(day))}
DiskBudgets == InitBudgets \cup {CorruptBudget}

InitDisk ==
    /\ \E i \in 1..Len(Instants) : clock = DiskToday * MinutesPerDay + Instants[i]
    /\ \E t \in Tickers :
        /\ \E a0 \in AVDiskFiles(DiskToday - 1, t), a1 \in AVDiskFiles(DiskToday, t) :
            avFiles = [NoFiles EXCEPT ![safe_ticker(t)][DiskToday - 1] = a0,
                                      ![safe_ticker(t)][DiskToday] = a1]
        /\ \E y0 \in YFDiskFiles(DiskToday - 1, t), y1 \in YFDiskFiles(DiskToday, t) :
            yfFiles = [NoFiles EXCEPT ![safe_ticker(t)][DiskToday - 1] = y0,
                                      ![safe_ticker(t)][DiskToday] = y1]
    /\ \E b \in DiskBudgets : budget = [d \in Days |-> IF d = DiskToday THEN b ELSE NoBudget]
    /\ pc = "idle"
    /\ cur = NoCall
    /\ attempt = 0
    /\ ret = NoRet
    /\ resp = NoResp
    /\ avUncounted = 0
    /\ calls = MaxCalls - 1
    /\ status = NoStatus
    /\ lim = NoLim
    /\ thr = NoThreads
    /\ calc = NoCalc
    /\ fred = NoFred
    /\ yfSeen = NoSeen

\* the steps of a call in progress
CallStep == AVCheck \/ AVAttempt \/ YFCheck \/ YFAttempt

NextDisk ==
    \/ \E t \in Tickers, kw \in KwArgs : fetch_ticker(t, kw)
    \/ CallStep

SpecDisk == InitDisk /\ [][NextDisk]_vars

\* The calling thread is blocked in the call and nothing else runs: a step
\* that can be taken is taken.
SpecDiskLive == SpecDisk /\ WF_vars(CallStep)

\* ------------------------------------- get_latest_price over caches left behind
\* As above, and a cache file may hold a 'data' list without rows (the case
\* _has_yesterdays_data tests with len(data['data']) == 0).  One call of
\* get_latest_price is made.
EmptyFile(src, t) ==
    OkFile([src |-> src, last |-> 0, hole |-> "none", rows |-> 0, sym |-> <<>>], t)

InitPrice ==
    /\ \E i \in 1..Len(Instants) : clock = DiskToday * MinutesPerDay + Instants[i]
    /\ \E t \in Tickers :
        /\ \E a0 \in AVDiskFiles(DiskToday - 1, t) \ {CorruptFile(0)},
              a1 \in AVDiskFiles(DiskToday, t) \cup {EmptyFile("av", 0)} :
            avFiles = [NoFiles EXCEPT ![safe_ticker(t)][DiskToday - 1] = a0,
                                      ![safe_ticker(t)][DiskToday] = a1]
        /\ \E y0 \in YFDiskFiles(DiskToday - 1, t) \ {CorruptFile(DiskTime(DiskToday - 1))},
              y1 \in YFDiskFiles(DiskToday, t) \cup {EmptyFile("yf", DiskTime(DiskToday))} :
            yfFiles = [NoFiles EXCEPT ![safe_ticker(t)][DiskToday - 1] = y0,
                                      ![safe_ticker(t)][DiskToday] = y1]
    /\ \E b \in DiskBudgets : budget = [d \in Days |-> IF d = DiskToday THEN b ELSE NoBudget]
    /\ pc = "idle"
    /\ cur = NoCall
    /\ attempt = 0
    /\ ret = NoRet
    /\ resp = NoResp
    /\ avUncounted = 0
    /\ calls = MaxCalls - 1
    /\ status = NoStatus
    /\ lim = NoLim
    /\ thr = NoThreads
    /\ calc = NoCalc
    /\ fred = NoFred
    /\ yfSeen = NoSeen

NextPrice ==
    \/ \E t \in Tickers : get_latest_price(t)
    \/ CallStep

SpecPrice == InitPrice /\ [][NextPrice]_vars

\* --------------------------------------- the budget status beside one call
\* Today's counter file as it may be found: absent, cut short, or readable
\* with any count; a count above the limit is what increments of clients
\* working side by side can leave.  The status is asked for before and after
\* one call of fetch_ticker.
BudgetFiles == {NoBudget, CorruptBudget} \cup {OkBudget(n) : n \in 0..(BudgetLimit + 1)}

InitBudget ==
    /\ \E i \in 1..Len(Instants) : clock = DiskToday * MinutesPerDay + Instants[i]
    /\ avFiles = NoFiles
    /\ yfFiles = NoFiles
    /\ \E b \in BudgetFiles : budget = [d \in Days |-> IF d = DiskToday THEN b ELSE NoBudget]
    /\ pc = "idle"
    /\ cur = NoCall
    /\ attempt = 0
    /\ ret = NoRet
    /\ resp = NoResp
    /\ avUncounted = 0
    /\ calls = MaxCalls - 1
    /\ status = NoStatus
    /\ lim = NoLim
    /\ thr = NoThreads
    /\ calc = NoCalc
    /\ fred = NoFred
    /\ yfSeen = NoSeen

NextBudget ==
    \/ BudgetStatus
    \/ \E t \in Tickers : fetch_ticker(t, DefaultKw)
    \/ CallStep

SpecBudget == InitBudget /\ [][NextBudget]_vars

\* ------------------------------------------------- calls for several symbols
\* MarketDataManager.fetch_ticker called for symbols whose cache file names
\* meet: SPY and SPYG, ^VIX and VIX.
NextSym ==
    \/ Tick
    \/ \E t \in Symbols : fetch_ticker(t, DefaultKw)
    \/ CallStep

SpecSym == Init /\ [][NextSym]_vars

\* ------------------------------------------------ the caches from day to day
\* YFinanceClient.fetch_ticker and FredClient.fetch_series called directly,
\* over days, each starting from an empty cache directory.
DefaultTTLDays == 7
FredTTLs == {1, DefaultTTLDays}

\* FredClient.__init__: self.fred is the API object, or None without a key
FredInits == {NoFred, [NoFred EXCEPT !.ready = FALSE]}

\* age = datetime.now() - file_time; age.days < ttl_days
fred_is_cache_valid(f, ttl_days, now) ==
    IF f.st = "none" THEN FALSE
    ELSE ((now - f.mtime) \div MinutesPerDay) < ttl_days

\* cache_path = self._get_cache_path(series_id, cache_date) with today's date
fred_cache_entry(files, day) == files[day]

\* self.fred.get_series: the observations, or an exception
FredOutcomes(day) == {[kind |-> "ok", data |-> day], [kind |-> "exc", data |-> 0]}

fetch_series(ttl_days, use_cache) ==
    /\ pc = "idle"
    /\ \E out \in FredOutcomes(today) :
        LET f == fred_cache_entry(fred.files, today)
            first == fred.lastDay # today
            called == [fred EXCEPT !.lastDay = today]
        IN fred' =
            IF ~fred.ready
            THEN [called EXCEPT !.ret = [kind |-> "raise", data |-> 0,
                                         requested |-> FALSE, first |-> first]]
            ELSE IF use_cache /\ fred_is_cache_valid(f, ttl_days, clock) /\ f.st = "ok"
            THEN [called EXCEPT !.ret = [kind |-> "cache", data |-> f.data,
                                         requested |-> FALSE, first |-> first]]
            ELSE IF out.kind = "ok"
            THEN [called EXCEPT !.files[today] = [st |-> "ok", mtime |-> clock, data |-> out.data],
                                !.ret = [kind |-> "live", data |-> out.data,
                                         requested |-> TRUE, first |-> first]]
            ELSE [called EXCEPT !.ret = [kind |-> "raise", data |-> 0,
                                         requested |-> TRUE, first |-> first]]
    /\ UNCHANGED <<mdvars, lim, thr, calc, yfSeen>>

\* YFinanceClient.fetch_ticker called by itself: the steps of the client as
\* in a call for ^VIX, where no other provider comes before or after
YFKwArgs == {DefaultKw, [DefaultKw EXCEPT !.use_cache = FALSE]}

yf_fetch_ticker(t, kw) ==
    /\ pc = "idle"
    /\ calls < MaxCalls
    /\ calls' = calls + 1
    /\ cur' = [NoCall EXCEPT !.ticker = t, !.kw = kw, !.step = "vix",
                             !.used0 = budget[today], !.av0 = avFiles, !.yf0 = yfFiles]
    /\ pc' = "yf_check"
    /\ ret' = NoRet
    /\ resp' = NoResp
    /\ status' = NoStatus
    /\ yfSeen' = [last |-> [yfSeen.last EXCEPT ![t] = today], first |-> yfSeen.last[t] # today]
    /\ UNCHANGED <<clock, avFiles, yfFiles, budget, avUncounted, attempt, lim, thr, calc, fred>>

InitDaily ==
    /\ clock = Instants[1]
    /\ avFiles = NoFiles
    /\ yfFiles = NoFiles
    /\ budget = [d \in Days |-> NoBudget]
    /\ pc = "idle"
    /\ cur = NoCall
    /\ attempt = 0
    /\ ret = NoRet
    /\ resp = NoResp
    /\ avUncounted = 0
    /\ calls = 0
    /\ status = NoStatus
    /\ lim = NoLim
    /\ thr = NoThreads
    /\ calc = NoCalc
    /\ fred \in FredInits
    /\ yfSeen = NoSeen

NextDaily ==
    \/ Tick
    \/ \E kw \in YFKwArgs : yf_fetch_ticker(VIX, kw)
    \/ YFCheck
    \/ YFAttempt
    \/ \E ttl \in FredTTLs, uc \in BOOLEAN : fetch_series(ttl, uc)

SpecDaily == InitDaily /\ [][NextDaily]_vars

\* ------------------------------------------------ fetches running side by side
\* Threads call AlphaVantageClient.fetch_ticker(use_cache=False), each for a
\* symbol of its own, through clients that share the cache directory and so
\* the counter file.  Each thread writes only the cache file of its own
\* symbol, which is left out here.  A step is what a thread does between two
\* points at which another thread can run: the budget check, one request, and
\* in _increment_api_budget the read of the file, open(budget_file, 'w')
\* (the file is empty from here on) and json.dump with the close.
InitConc ==
    /\ clock = Instants[1]
    /\ avFiles = NoFiles
    /\ yfFiles = NoFiles
    /\ \E b \in InitBudgets :
        /\ budget = [d \in Days |-> IF d = 0 THEN b ELSE NoBudget]
        /\ cur = [NoCall EXCEPT !.used0 = b]
    /\ pc = "idle"
    /\ attempt = 0
    /\ ret = NoRet
    /\ resp = NoResp
    /\ avUncounted = 0
    /\ calls = 0
    /\ status = NoStatus
    /\ lim = NoLim
    /\ thr = [i \in Threads |-> [NoThread EXCEPT !.at = "check"]]
    /\ calc = NoCalc
    /\ fred = NoFred
    /\ yfSeen = NoSeen

\* if not self._check_api_budget(): stale cache or ValueError, no request
ConcCheck(i) ==
    /\ thr[i].at = "check"
    /\ thr' = [thr EXCEPT ![i].at = IF check_api_budget(budget[today]) THEN "request" ELSE "refused"]
    /\ UNCHANGED <<mdvars, lim, calc, fred, yfSeen>>

\* one pass of the retry loop up to the cache write
ConcRequest(i) ==
    /\ thr[i].at = "request"
    /\ \E kind \in {"ok", "transient"} :
        thr' = IF kind = "ok" THEN [thr EXCEPT ![i].at = "inc_read"]
               ELSE IF AVRetries(kind, thr[i].attempt) THEN [thr EXCEPT ![i].attempt = @ + 1]
               ELSE [thr EXCEPT ![i].at = "failed"]
    /\ UNCHANGED <<mdvars, lim, calc, fred, yfSeen>>

\* _increment_api_budget: json.load and data['calls_used'] + 1
ConcIncRead(i) ==
    /\ thr[i].at = "inc_read"
    /\ thr' = [thr EXCEPT ![i].at = "inc_open", ![i].data = increment_api_budget(budget[today])]
    /\ UNCHANGED <<mdvars, lim, calc, fred, yfSeen>>

\* open(budget_file, 'w')
ConcIncOpen(i) ==
    /\ thr[i].at = "inc_open"
    /\ budget' = [budget EXCEPT ![today] = CorruptBudget]
    /\ thr' = [thr EXCEPT ![i].at = "inc_dump"]
    /\ UNCHANGED <<clock, avFiles, yfFiles, pc, cur, attempt, ret, resp, avUncounted, calls, status, lim, calc, fred, yfSeen>>

\* json.dump(data, f), the close, and return df
ConcIncDump(i) ==
    /\ thr[i].at = "inc_dump"
    /\ budget' = [budget EXCEPT ![today] = thr[i].data]
    /\ thr' = [thr EXCEPT ![i].at = "done", ![i].live = TRUE]
    /\ UNCHANGED <<clock, avFiles, yfFiles, pc, cur, attempt, ret, resp, avUncounted, calls, status, lim, calc, fred, yfSeen>>

NextConc ==
    \E i \in Threads :
        \/ ConcCheck(i)
        \/ ConcRequest(i)
        \/ ConcIncRead(i)
        \/ ConcIncOpen(i)
        \/ ConcIncDump(i)

SpecConc == InitConc /\ [][NextConc]_vars

\* --------------------------------------------------------------- FRSCalculator
\* Points are counted in sixtieths (Scale), so that 2.5 points and the
\* x * 25 / 30 of the category scaling are whole numbers.  A source either
\* fails (its client raises) or gives a series of n observations from which
\* the scorer takes one measurement x; a measurement may be NaN, for which
\* every comparison is false.
Scale == 60
Pts(k) == k * Scale
NaN == [nan |-> TRUE, v |-> 0]
Num(v) == [nan |-> FALSE, v |-> v]
Lt(a, k) == ~a.nan /\ a.v < k
Le(a, k) == ~a.nan /\ a.v <= k
Gt(a, k) == ~a.nan /\ a.v > k

Failed == [st |-> "fail", n |-> 0, x |-> NaN]
\* get_forward_pe returned None
Nothing == [st |-> "none", n |-> 0, x |-> NaN]
Obs(n, x) == [st |-> "ok", n |-> n, x |-> x]

\* x: rise of the unemployment rate over its 12-month low, tenths of a point
score_unemployment_trend(s) ==
    IF s.st # "ok" THEN 0
    ELSE IF s.n < 12 THEN 0
    ELSE IF Le(s.x, 0) THEN 0
    ELSE IF Lt(s.x, 5) THEN Pts(5) \div 2
    ELSE IF Lt(s.x, 10) THEN Pts(5)
    ELSE Pts(10)

\* x: [depth, duration, current] of the 10Y-2Y spread over the last year:
\* deepest inversion and current spread in tenths of a point, days inverted
score_yield_curve(s) ==
    IF s.st # "ok" THEN 0
    ELSE IF s.n < 60 THEN 0
    ELSE IF s.x.duration = 0 THEN 0
    ELSE IF s.x.depth > 10 /\ s.x.duration > 60
         THEN (IF s.x.current > 5 THEN Pts(10) ELSE Pts(8))
    ELSE IF s.x.depth > 5 THEN Pts(5)
    ELSE 0

\* a scorer that takes the worst when the series cannot be fetched
score_gdp_vs_stall_worst(s) ==
    IF s.st # "ok" THEN Pts(10)
    ELSE IF s.n < 4 THEN 0
    ELSE IF Gt(s.x, 25) THEN 0
    ELSE IF Gt(s.x, 15) THEN Pts(5)
    ELSE Pts(10)

\* x: trailing four-quarter mean of GDP growth, tenths of a percent
score_gdp_vs_stall(s) ==
    IF s.st # "ok" THEN Pts(5)
    ELSE IF s.n < 4 THEN 0
    ELSE IF Gt(s.x, 25) THEN 0
    ELSE IF Gt(s.x, 15) THEN Pts(5)
    ELSE Pts(10)

\* pe: get_forward_pe('SPY'); info: get_info('SPY')['trailingPE']
score_forward_pe(pe, info) ==
    IF pe.st = "fail" THEN 0
    ELSE IF pe.st = "none" /\ info.st # "ok" THEN 0
    ELSE LET forward_pe == IF pe.st = "none" THEN info.x ELSE pe.x
         IN IF Le(forward_pe, 16) THEN 0
            ELSE IF Le(forward_pe, 20) THEN Pts(5)
            ELSE Pts(10)

\* x: market capitalisation in percent of GDP
score_buffett_indicator(s) ==
    IF s.st # "ok" THEN 0
    ELSE IF s.n = 0 THEN 0
    ELSE IF Lt(s.x, 100) THEN 0
    ELSE IF Lt(s.x, 140) THEN Pts(5)
    ELSE Pts(10)

\* tbill: get_latest_value('DTB3') in hundredths of a percent (None when it
\* fails).  spread = (1 / pe) * 100 - tbill; spread > k is written without
\* the division as 10000 > (tbill + k) * pe, pe being positive here.
score_equity_yield_vs_tbill(pe, tbill) ==
    IF pe.st # "ok" THEN 0
    ELSE IF Le(pe.x, 0) THEN 0
    ELSE IF tbill.st # "ok" THEN 0
    ELSE IF ~pe.x.nan /\ ~tbill.x.nan /\ 10000 > (tbill.x.v + 200) * pe.x.v THEN 0
    ELSE IF ~pe.x.nan /\ ~tbill.x.nan /\ 10000 > tbill.x.v * pe.x.v THEN Pts(5)
    ELSE Pts(10)

\* self.manual_inputs as __init__ sets it; the delinquency rate in tenths
manual_inputs == [hedge_fund_leverage |-> 10, cre_delinquency_rate |-> 50]

score_hedge_fund_leverage(m) == Pts(m.hedge_fund_leverage)

\* x: high-yield spread
score_corporate_credit(s) ==
    IF s.st # "ok" THEN 0
    ELSE IF s.n = 0 THEN 0
    ELSE IF Lt(s.x, 400) THEN 0
    ELSE IF Lt(s.x, 600) THEN Pts(5)
    ELSE Pts(10)

score_cre_stress(m) ==
    IF m.cre_delinquency_rate < 20 THEN 0
    ELSE IF m.cre_delinquency_rate < 50 THEN Pts(5)
    ELSE Pts(10)

\* s: the fetches of SPY and RSP taken together; n: the shorter length;
\* x: six-month return of SPY less that of RSP, tenths of a percent
score_earnings_breadth(s) ==
    IF s.st # "ok" THEN 0
    ELSE IF s.n = 0 THEN 0
    ELSE IF Lt(s.x, -50) THEN Pts(10)
    ELSE IF Lt(s.x, 0) THEN Pts(5)
    ELSE 0

\* x: last close of ^VIX
score_sentiment(s) ==
    IF s.st # "ok" THEN 0
    ELSE IF s.n = 0 THEN 0
    ELSE IF Gt(s.x, 30) THEN -Pts(5)
    ELSE IF Lt(s.x, 15) THEN Pts(5)
    ELSE 0

\* round(x, 1) of x sixtieths, in tenths, and round(p / 100, 3) of p
\* sixtieths of a percent, in thousandths: (10 * x) / 60 to the nearest whole
\* number (the totals are multiples of 50 sixtieths, so there are no ties)
RoundScaled(x) == (10 * x + Scale \div 2) \div Scale

frs_zone(total_score) ==
    IF total_score <= Pts(30) THEN "GREEN"
    ELSE IF total_score <= Pts(50) THEN "YELLOW"
    ELSE IF total_score <= Pts(70) THEN "ORANGE"
    ELSE IF total_score <= Pts(85) THEN "RED"
    ELSE "BLACK"

\* calculate_frs over the outcomes of its sources
calculate_frs(src, m) ==
    LET unemployment_score == score_unemployment_trend(src.unrate)
        yield_curve_score == score_yield_curve(src.t10y2y)
        gdp_score == score_gdp_vs_stall(src.gdp)
        macro_score == Min(Pts(30), unemployment_score + yield_curve_score + gdp_score)
        pe_score == score_forward_pe(src.pe, src.info)
        buffett_score == score_buffett_indicator(src.buffett)
        equity_yield_score == score_equity_yield_vs_tbill(src.pe, src.tbill)
        valuation_raw == pe_score + buffett_score + equity_yield_score
        valuation_score == Min(Pts(25), (valuation_raw * 25) \div 30)
        hedge_fund_score == score_hedge_fund_leverage(m)
        corp_credit_score == score_corporate_credit(src.credit)
        cre_score == score_cre_stress(m)
        leverage_raw == hedge_fund_score + corp_credit_score + cre_score
        leverage_score == Min(Pts(25), (leverage_raw * 25) \div 30)
        earnings_score == score_earnings_breadth(src.earnings)
        sentiment_score == score_sentiment(src.vix)
        total_score == Max(0, Min(Pts(100),
            macro_score + valuation_score + leverage_score + earnings_score + sentiment_score))
        correction_prob == Max(Pts(5), Min(Pts(95), Pts(15) + (8 * total_score) \div 10))
    IN [frs_score |-> RoundScaled(total_score),
        correction_probability |-> RoundScaled(correction_prob),
        zone |-> frs_zone(total_score),
        component_details |->
            [unemployment |-> unemployment_score, yield_curve |-> yield_curve_score,
             gdp |-> gdp_score, forward_pe |-> pe_score,
             buffett_indicator |-> buffett_score, equity_yield |-> equity_yield_score,
             hedge_fund_leverage |-> hedge_fund_score, corporate_credit |-> corp_credit_score,
             cre_stress |-> cre_score, earnings_breadth |-> earnings_score,
             sentiment |-> sentiment_score]]

\* What the sources can give: a failure, or series whose measurement falls
\* on either side of the scorer's thresholds.
UnrateOutcomes == {Failed, Obs(70, Num(0)), Obs(70, Num(7)), Obs(70, NaN)}
YieldOutcomes ==
    {Failed, Obs(1500, [depth |-> 0, duration |-> 0, current |-> 5]),
     Obs(1500, [depth |-> 12, duration |-> 61, current |-> 6])}
GdpOutcomes == {Failed, Obs(20, Num(30)), Obs(20, NaN)}
PeOutcomes == {Failed, Nothing, Obs(1, Num(15)), Obs(1, Num(25))}
InfoOutcomes == {Failed, Obs(1, Num(25))}
BuffettOutcomes == {Failed, Obs(5, Num(90)), Obs(5, Num(150))}
TbillOutcomes == {Failed, Obs(1, Num(100)), Obs(1, Num(600))}
CreditOutcomes == {Failed, Obs(1500, Num(300)), Obs(1500, Num(700))}
EarningsOutcomes == {Failed, Obs(250, Num(-60)), Obs(250, Num(10))}
VixOutcomes == {Failed, Obs(250, Num(35)), Obs(250, Num(12))}

SourceOutcomes ==
    [unrate : UnrateOutcomes, t10y2y : YieldOutcomes, gdp : GdpOutcomes,
     pe : PeOutcomes, info : InfoOutcomes, buffett : BuffettOutcomes,
     tbill : TbillOutcomes, credit : CreditOutcomes,
     earnings : EarningsOutcomes, vix : VixOutcomes]

\* FRSCalculator() was constructed; src is what its sources will give
InitFRS ==
    /\ \E src \in SourceOutcomes : calc = [op |-> "FRSCalculator", src |-> src]
    /\ fred = NoFred
    /\ yfSeen = NoSeen
    /\ clock = Instants[1]
    /\ avFiles = NoFiles
    /\ yfFiles = NoFiles
    /\ budget = [d \in Days |-> NoBudget]
    /\ pc = "idle"
    /\ cur = NoCall
    /\ attempt = 0
    /\ ret = NoRet
    /\ resp = NoResp
    /\ avUncounted = 0
    /\ calls = 0
    /\ status = NoStatus
    /\ lim = NoLim
    /\ thr = NoThreads

FRSCalculate ==
    /\ calc.op = "FRSCalculator"
    /\ calc' = [op |-> "calculate_frs", src |-> calc.src,
                out |-> calculate_frs(calc.src, manual_inputs)]
    /\ UNCHANGED <<mdvars, lim, thr, fred, yfSeen>>

NextFRS == FRSCalculate

SpecFRS == InitFRS /\ [][NextFRS]_vars

\* -------------------------------------------------------------- CMDSCalculator
\* Weights are counted in thousandths, scores in tenths of a point, and the
\* weighted sum therefore in ten-thousandths of a point (CmdsUnit).
WeightUnit == 1000
CmdsUnit == 10000
DefaultFrsWeight == 650
DefaultVpWeight == 350
Abs(x) == IF x < 0 THEN -x ELSE x

\* a check that wants the weights to sum to 1.0 exactly
weights_sum_to_one_exact(frs_weight, vp_weight) == frs_weight + vp_weight = WeightUnit

\* not (abs(frs_weight + vp_weight - 1.0) > 0.01)
weights_sum_to_one(frs_weight, vp_weight) ==
    ~(Abs(frs_weight + vp_weight - WeightUnit) > WeightUnit \div 100)

\* the keyword arguments of a construction: any subset of the two weights
FrsWeights == {500, 640, 650, 800}
VpWeights == {300, 345, 350, 360, 500}
CtorKwargs ==
    {[n \in {} |-> 0]}
    \cup {[n \in {"frs_weight"} |-> f] : f \in FrsWeights}
    \cup {[n \in {"vp_weight"} |-> v] : v \in VpWeights}
    \cup {[n \in {"frs_weight", "vp_weight"} |-> IF n = "frs_weight" THEN f ELSE v] :
             f \in FrsWeights, v \in VpWeights}

\* CMDSCalculator.__init__: the object, or the ValueError raised before
\* frs_calculator and vp_predictor are created
CMDSCalculator(kw) ==
    LET frs_weight == IF "frs_weight" \in DOMAIN kw THEN kw["frs_weight"] ELSE DefaultFrsWeight
        vp_weight == IF "vp_weight" \in DOMAIN kw THEN kw["vp_weight"] ELSE DefaultVpWeight
    IN IF ~weights_sum_to_one(frs_weight, vp_weight)
       THEN [st |-> "ValueError", frs_weight |-> 0, vp_weight |-> 0, collaborators |-> FALSE]
       ELSE [st |-> "ok", frs_weight |-> frs_weight, vp_weight |-> vp_weight,
             collaborators |-> TRUE]

\* a classification with the bounds left out of the lower zone
get_zone_below(cmds) ==
    IF cmds < 25 * CmdsUnit THEN "SAFE"
    ELSE IF cmds < 45 * CmdsUnit THEN "CAUTIOUS"
    ELSE IF cmds < 65 * CmdsUnit THEN "ELEVATED"
    ELSE IF cmds < 80 * CmdsUnit THEN "HIGH"
    ELSE "EXTREME"

get_zone(cmds) ==
    IF cmds <= 25 * CmdsUnit THEN "SAFE"
    ELSE IF cmds <= 45 * CmdsUnit THEN "CAUTIOUS"
    ELSE IF cmds <= 65 * CmdsUnit THEN "ELEVATED"
    ELSE IF cmds <= 80 * CmdsUnit THEN "HIGH"
    ELSE "EXTREME"

\* What calculate_frs does for the caller, and the volatility predictor:
\* load_model finds no model files ("absent"), raises, or loads; then the
\* preparation and the prediction raise or give vp_score.
FrsOutcomes ==
    {[st |-> "raise", frs_score |-> 0]}
    \cup {[st |-> "ok", frs_score |-> x] : x \in {0, 217, 1000}}
VpOutcomes ==
    {[load |-> l, pred |-> "none", vp_score |-> 0] : l \in {"absent", "raise"}}
    \cup {[load |-> "ok", pred |-> "raise", vp_score |-> 0]}
    \cup {[load |-> "ok", pred |-> "ok", vp_score |-> x] : x \in {0, 420, 1000}}

\* round(cmds, 1) in tenths
RoundCmds(cmds) == (cmds + (CmdsUnit \div 20)) \div (CmdsUnit \div 10)

\* calculate_cmds of the object self over what FRS and the predictor do.
\* vp_result is assigned where the prediction is made and in the except
\* clause, not where the model is found missing; the returned dict reads it.
calculate_cmds(self, frs, vp) ==
    LET frs_score == IF frs.st = "ok" THEN frs.frs_score ELSE 0
        vp_score == IF vp.load = "ok" /\ vp.pred = "ok" THEN vp.vp_score ELSE 500
        vp_result_bound == vp.load # "absent"
        cmds == Max(0, Min(100 * CmdsUnit, self.frs_weight * frs_score + self.vp_weight * vp_score))
    IN IF ~vp_result_bound
       THEN [kind |-> "raise", err |-> "UnboundLocalError", cmds |-> 0, zone |-> "none",
             components |-> [frs |-> frs_score, vp |-> vp_score]]
       ELSE [kind |-> "result", err |-> "none", cmds |-> RoundCmds(cmds), zone |-> get_zone(cmds),
             components |-> [frs |-> frs_score, vp |-> vp_score]]

\* scores handed to get_zone: whole points and a tenth either side of the bounds
ZoneScores ==
    {k * CmdsUnit : k \in 0..100}
    \cup {b * CmdsUnit + d * (CmdsUnit \div 10) : b \in {25, 45, 65, 80}, d \in {-1, 1}}

InitCMDS ==
    /\ calc = NoCalc
    /\ fred = NoFred
    /\ yfSeen = NoSeen
    /\ clock = Instants[1]
    /\ avFiles = NoFiles
    /\ yfFiles = NoFiles
    /\ budget = [d \in Days |-> NoBudget]
    /\ pc = "idle"
    /\ cur = NoCall
    /\ attempt = 0
    /\ ret = NoRet
    /\ resp = NoResp
    /\ avUncounted = 0
    /\ calls = 0
    /\ status = NoStatus
    /\ lim = NoLim
    /\ thr = NoThreads

CMDSConstruct ==
    /\ calc.op = "none"
    /\ \E kw \in CtorKwargs :
        calc' = [op |-> "CMDSCalculator", self |-> CMDSCalculator(kw), kw |-> kw]
    /\ UNCHANGED <<mdvars, lim, thr, fred, yfSeen>>

CMDSGetZone ==
    /\ calc.op # "none" /\ calc.self.st = "ok"
    /\ \E c \in ZoneScores :
        calc' = [op |-> "get_zone", self |-> calc.self, arg |-> c, out |-> get_zone(c)]
    /\ UNCHANGED <<mdvars, lim, thr, fred, yfSeen>>

CMDSCalculate ==
    /\ calc.op # "none" /\ calc.self.st = "ok"
    /\ \E frs \in FrsOutcomes, vp \in VpOutcomes :
        calc' = [op |-> "calculate_cmds", self |-> calc.self, frs |-> frs, vp |-> vp,
                 out |-> calculate_cmds(calc.self, frs, vp)]
    /\ UNCHANGED <<mdvars, lim, thr, fred, yfSeen>>

NextCMDS == CMDSConstruct \/ CMDSGetZone \/ CMDSCalculate

SpecCMDS == InitCMDS /\ [][NextCMDS]_vars

\* ================================================================ properties
\* A MarketDataManager.fetch_ticker call has just completed.
Returned == pc = "idle" /\ ret.kind # "none"
InCall == cur.step # "none"
Special == cur.ticker = VIX
CurSafe == safe_ticker(cur.ticker)

\* The freshness policy of the specification, for the entry of today's date:
\* younger than 1 hour in the hours 9..16, younger than ttl hours otherwise.
PolicyFresh(f, ttl, now) ==
    /\ f.st = "ok"
    /\ now - f.mtime < (IF HourOf(now) \in 9..16 THEN Min(ttl, 1) ELSE ttl) * 60

YFFreshAtStart == PolicyFresh(cur.yf0[CurSafe][today], cur.kw.ttl_hours, clock)
ExhaustedAtStart == cur.used0.st = "ok" /\ cur.used0.calls_used >= 25

C2_Claim ==
    (Returned /\ ~Special)
        => /\ ExhaustedAtStart => cur.yf # "none"
           /\ ret.kind \in {"av_stale", "yf_stale"} => (cur.yf = "error" /\ cur.yfReq >= 1)

\* C3 as stated: staleness permitted, no live fetch succeeded, and an entry
\* for the symbol existed in either cache when the call started: the call
\* returns the series of such an entry and does not raise.
EntriesAtStart ==
    {LoadFrame(cur.av0[k[1]][k[2]].data) : k \in {k2 \in {CurSafe} \X Days : cur.av0[k2[1]][k2[2]].st = "ok"}}
    \cup {LoadFrame(cur.yf0[k[1]][k[2]].data) : k \in {k2 \in {CurSafe} \X Days : cur.yf0[k2[1]][k2[2]].st = "ok"}}

NoLiveSuccess == ret.kind \notin {"av_live", "yf_live"}

C3_Claim ==
    (Returned /\ ~Special /\ cur.kw.allow_stale /\ NoLiveSuccess /\ EntriesAtStart # {})
        => (ret.kind # "raise" /\ ret.data \in EntriesAtStart)

\* C4 as stated: staleness not permitted and no live fetch succeeded: the
\* call raises; it never takes a stale-fallback return.
C4_Claim ==
    (Returned /\ ~Special /\ ~cur.kw.allow_stale /\ NoLiveSuccess)
        => ret.kind \notin {"av_stale", "yf_stale"}

\* C5 as stated: the requests dispatched to Alpha Vantage on one day never
\* exceed the daily limit of 25.
C5_Claim == AVDispatchedToday <= 25

\* C6: a call that starts with calls_used at the limit dispatches no request
\* to Alpha Vantage, in no step of the call.
C6_ExhaustedBudgetNoPrimaryRequest ==
    (InCall /\ ~Special /\ ExhaustedAtStart) => (cur.avReq = 0 /\ pc # "av_req")

C6_Witness ==
    /\ Returned /\ ~Special /\ ExhaustedAtStart
    /\ cur.av1 = "budget" /\ cur.yf = "error" /\ cur.av3 = "budget"

\* C7: Alpha Vantage's live fetch ended in an error and Yahoo Finance's live
\* fetch succeeded: the call returns Yahoo Finance's payload, and the Yahoo
\* cache entry of (symbol, today) reads back as that payload.
C7_FallbackReturnsSecondary ==
    (Returned /\ cur.av1 = "error" /\ cur.yf = "ok")
        => /\ ret.kind = "yf_live"
           /\ resp.kind = "ok" /\ resp.data.src = "yf"
           /\ ret.data = resp.data
           /\ yfFiles[CurSafe][today].st = "ok"
           /\ LoadFrame(yfFiles[CurSafe][today].data) = resp.data

C7_Witness ==
    /\ Returned /\ cur.av1 = "error" /\ cur.yf = "ok"
    /\ cur.avReq = 2
    /\ ret.data.hole = "nan"

\* C8 as stated: after a definitive no-data answer (Alpha Vantage's
\* 'Error Message', Yahoo Finance's empty frame) the client does not go
\* round its retry loop again.
C8_Claim ==
    /\ ~(pc = "av_req" /\ attempt > 0 /\ resp.kind = "nodata")
    /\ ~(pc = "yf_req" /\ attempt > 0 /\ resp.kind = "empty")

\* C9: when the validity check reported the entry fresh (the call was served
\* from the Yahoo cache), the entry is at most 1 hour old if the hour is in
\* 9..16 and at most ttl_hours old otherwise.
C9_FreshnessInvariant ==
    (pc = "idle" /\ ret.kind = "yf_cache")
        => LET age == clock - yfFiles[CurSafe][today].mtime
           IN IF HourOf(clock) \in 9..16
              THEN age <= 60
              ELSE age <= cur.kw.ttl_hours * 60

C9_Witness ==
    /\ pc = "idle" /\ ret.kind = "yf_cache"
    /\ HourOf(clock) \in 9..16
    /\ clock - yfFiles[CurSafe][today].mtime = 30
    /\ cur.kw.ttl_hours = DefaultTTL

\* C10: the persisted calls_used of a day never decreases and is never
\* negative.
C10_BudgetMonotone ==
    [][\A d \in Days : /\ budget'[d].calls_used >= budget[d].calls_used
                       /\ budget'[d].calls_used >= 0
                       /\ budget[d].calls_used >= 0]_vars

C10_Witness ==
    /\ Returned /\ ret.kind = "av_live"
    /\ cur.used0.st = "ok"
    /\ budget[today].calls_used = cur.used0.calls_used + 1
    /\ cur.av3 = "ok"

\* C16: a request is only sent right after _rate_limit, and the time that
\* _rate_limit records is at least min_request_interval (12 s for Alpha
\* Vantage, 1 s for Yahoo Finance) after the time recorded for the request
\* before, whatever the thread did in between.
C16_RateLimitSpacing ==
    [][/\ lim'.sent # lim.sent => (lim.at = "limited" /\ lim.last_request_time = lim.now)
       /\ (lim.sent >= 1 /\ lim'.last_request_time # lim.last_request_time)
            => lim'.last_request_time - lim.last_request_time
                   >= (IF lim.client = "av" THEN 12 ELSE 1)]_vars

C16_Witness ==
    /\ lim.client = "av" /\ lim.at = "limited"
    /\ lim.sent = 2
    /\ lim.slept = 12

\* C11: calls_used changes only in the step in which a request to Alpha
\* Vantage was answered with a series, by exactly +1, and that step ends the
\* fetch_ticker call (so at most +1 per call); no other step changes any
\* counter file: not a cache or budget check, a failed request, a step of
\* a ^VIX or Yahoo Finance fetch, the passing of time or a status query.
\* Over a whole call calls_used rises by 1 if the call returned Alpha
\* Vantage's live series and by 0 otherwise.
C11_BudgetFrame ==
    [][/\ budget' # budget
            => /\ pc = "av_req" /\ cur.ticker # VIX
               /\ resp'.kind = "ok" /\ resp'.data.src = "av"
               /\ cur'.avReq = cur.avReq + 1
               /\ budget'[today].calls_used = budget[today].calls_used + 1
               /\ \A dd \in Days \ {today} : budget'[dd] = budget[dd]
               /\ pc' = "idle" /\ ret'.kind = "av_live"
       /\ (pc # "idle" /\ pc' = "idle")
            => budget'[today].calls_used - cur'.used0.calls_used
                   = (IF ret'.kind = "av_live" THEN 1 ELSE 0)]_vars

C11_Witness ==
    /\ Returned /\ ret.kind = "av_live"
    /\ cur.step = "av1" /\ cur.avReq = 2
    /\ cur.used0.st = "none"
    /\ budget[today] = OkBudget(1)

\* Every file but the one of (symbol of the call, today) is as it was.
OtherFilesKept(now, before) ==
    \A s \in SafeNames, dd \in Days :
        (s # CurSafe \/ dd # today) => now[s][dd] = before[s][dd]

\* C12: after a live fetch that succeeded, the provider's cache file of
\* (symbol, today) reads back as the payload of this fetch, whatever an
\* earlier fetch of the same day had written there (one file per symbol and
\* day: the path is <safe>_<date>.json), and every other file of both caches,
\* the entries of earlier days among them, is as it was when the call began.
C12_IdempotentOverwrite ==
    /\ (Returned /\ ret.kind = "av_live")
         => /\ avFiles[CurSafe][today].st = "ok"
            /\ LoadFrame(avFiles[CurSafe][today].data) = ret.data
            /\ OtherFilesKept(avFiles, cur.av0)
            /\ yfFiles = cur.yf0
    /\ (Returned /\ ret.kind = "yf_live")
         => /\ yfFiles[CurSafe][today].st = "ok"
            /\ LoadFrame(yfFiles[CurSafe][today].data) = ret.data
            /\ OtherFilesKept(yfFiles, cur.yf0)
            /\ avFiles = cur.av0

C12_Witness ==
    /\ Returned /\ ret.kind = "av_live"
    /\ today = 1
    /\ cur.av0[CurSafe][today].st = "ok"
    /\ LoadFrame(cur.av0[CurSafe][today].data) # ret.data
    /\ avFiles[CurSafe][0].st = "ok"

\* C17: when a call returns a series obtained live, the series is the
\* provider's answer to the last request, and the provider's cache file of
\* (symbol, today) was written in this call and reads back as that series.
C17_LiveDataCached ==
    /\ (Returned /\ ret.kind = "av_live")
         => /\ resp.kind = "ok" /\ ret.data = resp.data
            /\ avFiles[CurSafe][today] = OkFile(Sanitize(ret.data), 0)
            /\ LoadFrame(avFiles[CurSafe][today].data) = ret.data
    /\ (Returned /\ ret.kind = "yf_live")
         => /\ resp.kind = "ok" /\ ret.data = resp.data
            /\ yfFiles[CurSafe][today] = OkFile(Sanitize(ret.data), clock)
            /\ LoadFrame(yfFiles[CurSafe][today].data) = ret.data

C17_Witness ==
    /\ Returned /\ ret.kind = "yf_live"
    /\ Special
    /\ cur.yf0[CurSafe][today].st = "none"
    /\ ret.data.hole = "nan"

\* The newest file a provider's cache held for the symbol when the call
\* began cannot be parsed.
AVNewestUnreadable ==
    /\ AVCacheFiles(cur.av0, CurSafe) # {}
    /\ LET k == AVLatest(cur.av0, CurSafe) IN cur.av0[k[1]][k[2]].st = "corrupt"

YFNewestUnreadable ==
    /\ YFCacheFiles(cur.yf0, CurSafe) # {}
    /\ LET k == YFLatest(cur.yf0, CurSafe) IN cur.yf0[k[1]][k[2]].st = "corrupt"

\* C13: a cache file that cannot be parsed never surfaces: what a call
\* raises is a fetch error of a provider, and what it returns is a series.
\* When today's Yahoo Finance file is unreadable, the Yahoo Finance step does
\* not answer from the cache and goes on to a live request; when the newest
\* file of a provider is unreadable, that provider's stale fallback (and
\* Alpha Vantage's cache path) returns nothing from it.
C13_CorruptCacheIsMiss ==
    Returned
        => /\ ret.kind = "raise" => ret.err \in {"ValueError", "LibraryError"}
           /\ ret.kind # "raise" => ret.data.src \in {"av", "yf"}
           /\ (cur.yf # "none" /\ cur.yf0[CurSafe][today].st = "corrupt")
                => (cur.yfReq >= 1 /\ ret.kind # "yf_cache")
           /\ YFNewestUnreadable => ret.kind # "yf_stale"
           /\ AVNewestUnreadable => ret.kind \notin {"av_stale", "av_cache"}

C13_Witness ==
    /\ Returned /\ ret.kind = "raise"
    /\ cur.kw.allow_stale /\ cur.kw.use_cache
    /\ HourOf(clock) < 9
    /\ cur.yf0[CurSafe][today].st = "corrupt"
    /\ AVNewestUnreadable
    /\ cur.av0[CurSafe][today - 1].st = "ok"
    /\ cur.av1 = "budget" /\ cur.yf = "error" /\ cur.av3 = "budget"

\* C18: a provider client's fetch_ticker is at its retry loop only with
\* fewer than 2 requests dispatched so far in that client call (`attempt`
\* counts them), so it dispatches at most 2; a MarketDataManager call, which
\* runs Alpha Vantage's client at most twice and Yahoo Finance's once,
\* dispatches at most 2 + 2 requests to Alpha Vantage and 2 to Yahoo Finance;
\* and every call in progress comes to its end, whatever the providers answer.
C18_BoundedRequestsTerminates ==
    /\ [](/\ pc \in {"av_req", "yf_req"} => attempt < 2
          /\ cur.step = "av1" => cur.avReq <= 2
          /\ cur.avReq <= 4
          /\ cur.yfReq <= 2)
    /\ ((pc # "idle") ~> (pc = "idle"))

C18_Witness ==
    /\ Returned /\ ret.kind = "raise"
    /\ cur.avReq = 4 /\ cur.yfReq = 2
    /\ ret.err = "ValueError"

\* C14 as stated: a call for ^VIX dispatches at least one request to Yahoo
\* Finance before it returns anything, cached data included.
C14_Claim ==
    (Returned /\ Special) => cur.yfReq >= 1

\* C15 as stated: whatever a call raises is the one exhaustion error type.
C15_Claim ==
    (Returned /\ ret.kind = "raise") => ret.err = "AllSourcesExhaustedError"

\* C19 as stated: once a client has written today's file for a symbol (its
\* live fetch succeeded today), a later call of that client for the symbol
\* with caching enabled does not get to dispatch a request.
C19_Claim ==
    /\ ~(pc = "av_req" /\ AVUseCache(cur) /\ avFiles[CurSafe][today].st = "ok")
    /\ ~(pc = "yf_req" /\ cur.kw.use_cache /\ yfFiles[CurSafe][today].st = "ok")

\* The date of the cache file whose series the call returned.
ReturnedEntryDay ==
    IF ret.kind = "yf_stale" THEN YFLatest(cur.yf0, CurSafe)[2]
    ELSE AVLatest(cur.av0, CurSafe)[2]

\* C20 as stated: a call that returns cached data after the live path gave
\* nothing returns the newest entry stored for the symbol: no readable entry
\* of a later date exists for it, in either cache.
C20_Claim ==
    (Returned /\ ret.kind \in {"av_stale", "av_cache", "yf_stale"})
        => \A dd \in Days :
              (cur.av0[CurSafe][dd].st = "ok" \/ cur.yf0[CurSafe][dd].st = "ok")
                  => dd <= ReturnedEntryDay

\* C21: MarketDataManager.get_latest_price never raises; it gives the close of
\* the last bar of the series fetch_ticker returned, and None when fetch_ticker
\* raised or returned a series without bars.
C21_LatestPrice ==
    (Returned /\ cur.via = "get_latest_price")
        => /\ ret.out.kind \in {"float", "None"}
           /\ (ret.kind = "raise" \/ ret.data.rows = 0) => ret.out.kind = "None"
           /\ (ret.kind # "raise" /\ ret.data.rows > 0)
                => ret.out = [kind |-> "float", value |-> last_close(ret.data)]

\* fetch_ticker raised (both providers failed, nothing usable cached) and
\* get_latest_price gave None
C21_Witness ==
    /\ Returned /\ cur.via = "get_latest_price"
    /\ ret.kind = "raise" /\ cur.avReq > 0 /\ cur.yfReq > 0
    /\ ret.out.kind = "None"

\* C22: whatever today's counter file is (absent, readable, unreadable),
\* get_daily_budget_status reports limit 25, used = the file's calls_used (0
\* if there is none to read) and remaining = max(0, limit - used), and
\* remaining > 0 exactly when _check_api_budget admits a call.
C22_BudgetStatus ==
    status # NoStatus
        => LET b == budget[today]
               used == IF b.st = "ok" THEN b.calls_used ELSE 0
           IN /\ status.limit = 25
              /\ status.used = used
              /\ status.remaining = (IF used < 25 THEN 25 - used ELSE 0)
              /\ (status.remaining > 0) <=> check_api_budget(b)

\* the status of an unreadable counter file
C22_Witness ==
    /\ status # NoStatus
    /\ budget[today].st = "corrupt"
    /\ status.used = 0 /\ status.remaining = 25

ConcDone == \A i \in Threads : thr[i].at \in {"done", "failed", "refused"}
ConcLive == Cardinality({i \in Threads : thr[i].live})
CallsUsed(b) == IF b.st = "ok" THEN b.calls_used ELSE 0

\* C23 as stated: with fetches for different symbols running side by side
\* through the primary provider no increment is lost: once all have completed,
\* today's calls_used has risen by the number of fetches that got live data,
\* and calls_used never exceeds 25.
C23_Claim ==
    /\ CallsUsed(budget[today]) <= 25
    /\ (thr # NoThreads /\ ConcDone)
         => CallsUsed(budget[today]) = CallsUsed(cur.used0) + ConcLive

\* C24: whatever each source gives (a value or a failure), calculate_frs
\* returns a result in which a failed source contributes its fixed default
\* sub-score (5 points for GDP, 0 for the others), 0 <= frs_score <= 100 and
\* 0 <= correction_probability <= 1.
C24_FRSDefaults ==
    calc.op = "calculate_frs"
        => LET src == calc.src
               out == calc.out
               det == out.component_details
           IN /\ 0 <= out.frs_score /\ out.frs_score <= 1000
              /\ 0 <= out.correction_probability /\ out.correction_probability <= 1000
              /\ src.unrate.st = "fail" => det.unemployment = 0
              /\ src.t10y2y.st = "fail" => det.yield_curve = 0
              /\ src.gdp.st = "fail" => det.gdp = 5 * 60
              /\ (src.pe.st = "fail" \/ (src.pe.st = "none" /\ src.info.st = "fail"))
                    => det.forward_pe = 0
              /\ src.buffett.st = "fail" => det.buffett_indicator = 0
              /\ (src.pe.st # "ok" \/ src.tbill.st = "fail") => det.equity_yield = 0
              /\ src.credit.st = "fail" => det.corporate_credit = 0
              /\ src.earnings.st = "fail" => det.earnings_breadth = 0
              /\ src.vix.st = "fail" => det.sentiment = 0

\* every source failed: 5 + 0 + 16.7 + 0 + 0 = 21.7 points, probability 0.323
C24_Witness ==
    /\ calc.op = "calculate_frs"
    /\ \A k \in DOMAIN calc.src : calc.src[k].st = "fail"
    /\ calc.out.frs_score = 217
    /\ calc.out.correction_probability = 323

KwFrs == IF "frs_weight" \in DOMAIN calc.kw THEN calc.kw["frs_weight"] ELSE 650
KwVp == IF "vp_weight" \in DOMAIN calc.kw THEN calc.kw["vp_weight"] ELSE 350

ZoneRank(z) ==
    CASE z = "SAFE" -> 1 [] z = "CAUTIOUS" -> 2 [] z = "ELEVATED" -> 3
      [] z = "HIGH" -> 4 [] z = "EXTREME" -> 5 [] OTHER -> 0

\* the zone the score c (in points times 10000) is to get
ZoneOf(c) ==
    IF c <= 250000 THEN "SAFE"
    ELSE IF c <= 450000 THEN "CAUTIOUS"
    ELSE IF c <= 650000 THEN "ELEVATED"
    ELSE IF c <= 800000 THEN "HIGH"
    ELSE "EXTREME"

\* C26: get_zone gives SAFE for cmds <= 25, CAUTIOUS for 25 < cmds <= 45,
\* ELEVATED for 45 < cmds <= 65, HIGH for 65 < cmds <= 80 and EXTREME above
\* 80: every score in 0..100 gets exactly one zone, and of two calls the one
\* with the higher score never gets the safer zone.
C26_ZoneMonotone ==
    [][calc'.op = "get_zone"
        => /\ calc'.out = ZoneOf(calc'.arg)
           /\ ZoneRank(calc'.out) \in 1..5
           /\ (calc.op = "get_zone" /\ calc.arg <= calc'.arg)
                => ZoneRank(calc.out) <= ZoneRank(calc'.out)]_vars

\* the score 25.1, just above the bound of SAFE, is CAUTIOUS
C26_Witness ==
    /\ calc.op = "get_zone"
    /\ calc.arg = 251000
    /\ calc.out = "CAUTIOUS"

\* C30 as stated: calculate_cmds returns a result in every combination of FRS
\* and VP outcomes, with FRS score 0 when the FRS computation fails, VP score
\* 50 when the model cannot be loaded or the prediction fails, and the
\* combined score within 0..100.
C30_Claim ==
    calc.op = "calculate_cmds"
        => /\ calc.out.kind = "result"
           /\ calc.frs.st = "raise" => calc.out.components.frs = 0
           /\ (calc.vp.load # "ok" \/ calc.vp.pred # "ok") => calc.out.components.vp = 500
           /\ 0 <= calc.out.cmds /\ calc.out.cmds <= 1000

\* C27 as stated: the last-resort step of MarketDataManager.fetch_ticker
\* dispatches no request, so one call attempts the live fetch of Alpha Vantage
\* at most once and sends at most max_retries (2) requests to each provider.
C27_Claim ==
    /\ ~(cur.step = "av3" /\ pc = "av_req")
    /\ cur.avReq <= 2
    /\ cur.yfReq <= 2

\* C28 as stated: a fetch for a symbol never returns a cached series that a
\* fetch for another symbol wrote, in the fresh-cache path and in the
\* stale-fallback path, also for symbols that share a prefix or differ only
\* by a leading '^'.
C28_Claim ==
    (Returned /\ ret.kind \in {"av_cache", "av_stale", "yf_cache", "yf_stale"})
        => ret.data.sym = cur.ticker

====
